---- MODULE Spec2Model ----
(***************************************************************************)
(* QuadrantTG backend: the fixed-window rate limiter                       *)
(* (app/core/rate_limiter.py), the request-guard middleware                *)
(* (app/middleware/*.py, app/main.py) and the route guards that use them   *)
(* (app/api/deps.py, app/api/v1/routes/*.py).                              *)
(*                                                                         *)
(* Init-data verification (app/core/telegram.py), the session tokens       *)
(* (app/core/security.py), the login and refresh flows                     *)
(* (app/api/v1/routes/auth.py) and the user upsert (app/services/user.py). *)
(*                                                                         *)
(* Specifications:                                                         *)
(*   SpecLimiter   concurrent callers of RedisRateLimiter.allow, with time *)
(*   SpecIdentity  default_identifier applied to bounded requests          *)
(*   Spec          concurrent HTTP requests through the middleware chain   *)
(*   SpecTelegram  verify_and_destructure_init_data on bounded init-data   *)
(*   SpecAuth      concurrent login, refresh, profile and usage requests   *)
(*   SpecUsers     init-data to users table, for one returning user        *)
(***************************************************************************)
EXTENDS Integers, Sequences, FiniteSets, TLC

VARIABLES
    redis,            \* the counter store: redis key -> [count, ttl]
    callLimit,        \* SpecLimiter: the limit allow is called with
    calls,            \* SpecLimiter: one record per concurrent caller of allow
    last,             \* SpecLimiter: the call that returned most recently
    issued,           \* observer: allow calls counted on a key since its counter was created
    granted,          \* observer: of those, the calls whose result is true
    recent,           \* observer: per key, true results by age in ticks (1 = this tick)
    rejectedEarlier,  \* observer: a call on the key was rejected in an expired window
    trusted_networks, \* settings.trusted_proxies as networks (sets of addresses)
    probe,            \* SpecIdentity: requests whose identity was resolved
    req,              \* Spec: the requests in flight, one record per connection
    resp,             \* Spec: the request answered by the last step, with its response
    users,            \* Spec: the users table, telegram_id -> row
    arrived,          \* Spec, SpecAuth: requests received so far
    blob,             \* SpecTelegram: the init-data received
    verdict,          \* SpecTelegram: what verification made of it
    db,               \* SpecAuth, SpecUsers: the users table, a sequence of rows (id = position)
    clock,            \* SpecAuth: the time, in ticks
    minted,           \* SpecAuth: the tokens issued so far
    sess,             \* SpecAuth: the auth and user requests in flight
    out,              \* SpecAuth: the request answered by the last step
    accepted          \* observer: refresh tokens that refresh has accepted

limiterVars == <<callLimit, calls, last, issued, granted, recent, rejectedEarlier>>

identityVars == <<probe>>

pipelineVars == <<req, resp, users, arrived>>

telegramVars == <<blob, verdict>>

authVars == <<db, clock, minted, sess, out, accepted>>

vars == <<redis, limiterVars, trusted_networks, identityVars, pipelineVars,
          telegramVars, authVars>>

(***************************************************************************)
(* Bounds of the model                                                     *)
(***************************************************************************)
MaxLimit == 3        \* SpecLimiter tries the limits 1..MaxLimit
WindowTicks == 2     \* window_seconds, in clock ticks
MaxOver == 2         \* calls counted beyond the limit before the model stops counting
NumCallers == 2      \* concurrent callers of allow in SpecLimiter
MaxRequests == 3     \* requests received in one behaviour of Spec

\* settings (core/config.py), scaled down: limits in requests, windows in ticks
global_rate_limit_max_requests == 2
global_rate_limit_window_seconds == 1
auth_rate_limit_per_minute == 1
admin_rate_limit_per_minute == 1
usage_rate_limit_per_minute == 1

\* settings.request_body_max_bytes and settings.admin_telegram_ids, as set
request_body_max_bytes == 262144
admin_telegram_ids == {1350430976, 796891046}

Callers == 1..NumCallers
TestKeys == {"k1"}

\* a counter without expiry (redis TTL -1)
NoTTL == -1

(***************************************************************************)
(* The counter store (redis_client)                                        *)
(***************************************************************************)
\* RedisRateLimiter.allow line 18: redis_key = f"{self.prefix}:{key}"
RedisKey(key) == "rl:" \o key

\* GET-like view: 0 for a key that does not exist
CountOf(store, rkey) == IF rkey \in DOMAIN store THEN store[rkey].count ELSE 0

\* a store that counts a call twice
IncrTwice(store, rkey) ==
    IF rkey \in DOMAIN store
    THEN [store EXCEPT ![rkey].count = @ + 2]
    ELSE [k \in DOMAIN store \cup {rkey} |->
            IF k = rkey THEN [count |-> 2, ttl |-> NoTTL] ELSE store[k]]

\* a store in which a call counts against every counter there is
IncrEvery(store, rkey) ==
    [k \in DOMAIN store \cup {rkey} |->
        IF k \in DOMAIN store THEN [store[k] EXCEPT !.count = @ + 1]
        ELSE [count |-> 1, ttl |-> NoTTL]]

\* redis_client.incr: creates the key at 1 with no expiry, else adds one and
\* leaves the expiry alone
Incr(store, rkey) ==
    IF rkey \in DOMAIN store
    THEN [store EXCEPT ![rkey].count = @ + 1]
    ELSE [k \in DOMAIN store \cup {rkey} |->
            IF k = rkey THEN [count |-> 1, ttl |-> NoTTL] ELSE store[k]]

\* an expiry of one tick whatever the window
ExpireShort(store, rkey, seconds) ==
    IF rkey \in DOMAIN store
    THEN [store EXCEPT ![rkey].ttl = 1]
    ELSE store

\* redis_client.expire: sets the time to live of an existing key
Expire(store, rkey, seconds) ==
    IF rkey \in DOMAIN store
    THEN [store EXCEPT ![rkey].ttl = seconds]
    ELSE store

\* one clock tick in the store: every expiry counts down, a key whose time
\* is up is removed
Expiring(store) == {k \in DOMAIN store : store[k].ttl = 1}

Elapse(store) ==
    [k \in DOMAIN store \ Expiring(store) |->
        IF store[k].ttl = NoTTL THEN store[k]
        ELSE [store[k] EXCEPT !.ttl = @ - 1]]

RECURSIVE ElapseTicks(_, _)
ElapseTicks(store, n) == IF n = 0 THEN store ELSE ElapseTicks(Elapse(store), n - 1)

LongestWindow ==
    IF global_rate_limit_window_seconds > WindowTicks
    THEN global_rate_limit_window_seconds ELSE WindowTicks

(***************************************************************************)
(* RedisRateLimiter.allow                                                  *)
(***************************************************************************)
\* a sliding window: every call sets the expiry again
NeedsExpireAlways(count) == TRUE

\* line 20: the call that saw count == 1 goes on to set the expiry
NeedsExpire(count) == count = 1

\* an off-by-one comparison
AllowedStrict(count, limit) == count < limit

\* a loose comparison: one request more than the limit gets through
AllowedLoose(count, limit) == count <= limit + 1

\* line 22: return count <= limit
Allowed(count, limit) == count <= limit

(***************************************************************************)
(* Identity resolution (rate_limiter.py lines 27-54)                       *)
(***************************************************************************)
\* Python's None, for a missing client address
None == "None"

\* request.state.user_id when nothing has set it
NoUser == 0

ClientU == "198.51.100.7"
ClientV == "203.0.113.9"
ProxyP == "10.0.0.1"
ProxyQ == "10.0.0.2"

\* hosts that ip_address() parses
IpAddresses == {ClientU, ClientV, ProxyP, ProxyQ}

\* the network 10.0.0.0/8, as the addresses of the model it contains
Net10 == {ProxyP, ProxyQ}

\* a proxy check that trusts every peer
TrustAnyPeer(host) == TRUE

\* _is_trusted_proxy, lines 30-37
is_trusted_proxy(host) ==
    IF host = None \/ trusted_networks = {} THEN FALSE
    ELSE IF host \notin IpAddresses THEN FALSE
    ELSE \E network \in trusted_networks : host \in network

\* default_identifier, lines 40-47. request.forwarded is the X-Forwarded-For
\* header split at its commas, each entry stripped; <<>> is a header that is
\* missing or blank (both are falsy in line 43)
default_identifier(request) ==
    IF request.forwarded # <<>> /\ is_trusted_proxy(request.client_host)
    THEN Head(request.forwarded)
    ELSE IF request.client_host # None THEN request.client_host
    ELSE "unknown"

\* an identifier that ignores request.state.user_id
address_identifier(request) == default_identifier(request)

\* user_identifier, lines 50-54
user_identifier(request) ==
    IF request.user_id # NoUser
    THEN "user:" \o ToString(request.user_id)
    ELSE default_identifier(request)

(***************************************************************************)
(* Requests                                                                *)
(***************************************************************************)
Probes == {1, 2}

NoProbe == [client_host |-> None, forwarded |-> <<>>, identity |-> ""]

\* connections that can each carry one request at a time
Slots == {"s1", "s2"}

\* a connection without a request; also the shape of a request's record:
\* what the client sent (route, method, client_host, forwarded, body, seconds),
\* what the pipeline derived (count: the value INCR returned to the allow call
\* in progress; gkey/gover: the global counter, and whether the count it
\* returned was above the global limit; skey/sover: the same for the route's
\* scope; tg: the verified Telegram id; user_id: request.state.user_id; seen:
\* app_seconds_spent as loaded; sub: the subject of the issued tokens;
\* handled: the route handler has started) and the response (status, detail)
Free ==
    [pc |-> "free", route |-> "", method |-> "", client_host |-> None,
     forwarded |-> <<>>, body |-> -1, seconds |-> 0, count |-> 0,
     gkey |-> "", gover |-> FALSE, skey |-> "", sover |-> FALSE,
     tg |-> 0, user_id |-> NoUser, seen |-> 0, sub |-> 0, handled |-> FALSE,
     status |-> 0, detail |-> ""]

\* no init-data received, nothing verified
NoBlob == [empty |-> TRUE, params |-> <<>>]

NoVerdict == [status |-> 0, detail |-> "", id |-> 0]

\* connections that carry the auth and user requests of SpecAuth
Sessions == {"a1", "a2"}

\* a connection without a request; also the shape of a request of SpecAuth
\* and SpecUsers: what the client sent (route; header: the init-data, and
\* bearer: the Authorization token, where the specification has them; tg and
\* profile: the verified Telegram identity; seconds; token: the refresh
\* field), what the handler holds (at: the time decode_token ran; read: the
\* row get_by_telegram_id returned; row: the user row as loaded now; wrote:
\* the request has committed to the users table; pair: the tokens issued)
\* and the response
NoRequest ==
    [pc |-> "free", route |-> "", header |-> NoBlob, bearer |-> <<>>, tg |-> 0,
     profile |-> <<>>, seconds |-> 0,
     token |-> <<>>, at |-> 0, read |-> <<>>, row |-> <<>>, wrote |-> FALSE,
     pair |-> <<>>, status |-> 0, detail |-> ""]

(***************************************************************************)
(* Callers of allow (SpecLimiter)                                          *)
(***************************************************************************)
Idle == [pc |-> "idle", key |-> "", count |-> 0, nth |-> 0]

NoCall == [key |-> "", count |-> 0, nth |-> 0, result |-> FALSE]

\* observers of one counted call
Observe(key, count) ==
    /\ issued' = [issued EXCEPT ![key] = @ + 1]
    /\ granted' = [granted EXCEPT ![key] = IF Allowed(count, callLimit) THEN @ + 1 ELSE @]
    /\ recent' = [recent EXCEPT ![key][1] = IF Allowed(count, callLimit) THEN @ + 1 ELSE @]

\* line 22, seen by the caller
Return(c, key, count, nth) ==
    last' = [key |-> key, count |-> count, nth |-> nth, result |-> Allowed(count, callLimit)]

\* allow, lines 18-19 (and 22 when count # 1): the INCR round trip
AllowIncr(c, key) ==
    /\ calls[c].pc = "idle"
    /\ CountOf(redis, RedisKey(key)) < callLimit + MaxOver
    /\ redis' = Incr(redis, RedisKey(key))
    /\ LET count == CountOf(redis', RedisKey(key))
           nth == issued[key] + 1
       IN
         /\ Observe(key, count)
         /\ IF NeedsExpire(count)
            THEN /\ calls' = [calls EXCEPT ![c] =
                        [pc |-> "expire", key |-> key, count |-> count, nth |-> nth]]
                 /\ UNCHANGED last
            ELSE /\ Return(c, key, count, nth)
                 /\ UNCHANGED calls
    /\ UNCHANGED <<callLimit, rejectedEarlier, trusted_networks, telegramVars, authVars, identityVars, pipelineVars>>

\* allow, lines 20-22: the EXPIRE round trip of the call that saw count == 1
AllowExpire(c) ==
    /\ calls[c].pc = "expire"
    /\ redis' = Expire(redis, RedisKey(calls[c].key), WindowTicks)
    /\ Return(c, calls[c].key, calls[c].count, calls[c].nth)
    /\ calls' = [calls EXCEPT ![c] = Idle]
    /\ UNCHANGED <<callLimit, issued, granted, recent, rejectedEarlier>>
    /\ UNCHANGED <<trusted_networks, telegramVars, authVars, identityVars, pipelineVars>>

\* the caller is cancelled while it waits for the EXPIRE round trip (client
\* disconnect, store error): the rest of allow never runs
AllowAbandon(c) ==
    /\ calls[c].pc = "expire"
    /\ calls' = [calls EXCEPT ![c] = Idle]
    /\ UNCHANGED <<redis, callLimit, last, issued, granted, recent, rejectedEarlier>>
    /\ UNCHANGED <<trusted_networks, telegramVars, authVars, identityVars, pipelineVars>>

\* one clock tick
Shift(ages) == [i \in 1..Len(ages) |-> IF i = 1 THEN 0 ELSE ages[i - 1]]

Tick ==
    /\ redis' = Elapse(redis)
    /\ LET gone == {k \in TestKeys : RedisKey(k) \in Expiring(redis)} IN
         /\ issued' = [k \in TestKeys |-> IF k \in gone THEN 0 ELSE issued[k]]
         /\ granted' = [k \in TestKeys |-> IF k \in gone THEN 0 ELSE granted[k]]
         /\ rejectedEarlier' = [k \in TestKeys |->
                IF k \in gone THEN issued[k] > granted[k] ELSE rejectedEarlier[k]]
    /\ recent' = [k \in TestKeys |-> Shift(recent[k])]
    /\ UNCHANGED <<callLimit, calls, last, trusted_networks, telegramVars, authVars, identityVars, pipelineVars>>

\* the parts of the state a specification does not use stay as they are here
LimiterQuiet ==
    /\ callLimit = 1
    /\ calls = [c \in Callers |-> Idle]
    /\ last = NoCall
    /\ issued = [k \in TestKeys |-> 0]
    /\ granted = [k \in TestKeys |-> 0]
    /\ recent = [k \in TestKeys |-> [i \in 1..(WindowTicks + 1) |-> 0]]
    /\ rejectedEarlier = [k \in TestKeys |-> FALSE]

IdentityQuiet == probe = [i \in Probes |-> NoProbe]

PipelineQuiet ==
    /\ req = [s \in Slots |-> Free]
    /\ resp = Free
    /\ users = <<>>
    /\ arrived = 0

TelegramQuiet == blob = NoBlob /\ verdict = NoVerdict

AuthQuiet ==
    /\ db = <<>>
    /\ clock = 0
    /\ minted = {}
    /\ sess = [s \in Sessions |-> NoRequest]
    /\ out = NoRequest
    /\ accepted = {}

InitLimiter ==
    /\ redis = <<>>
    /\ callLimit \in 1..MaxLimit
    /\ calls = [c \in Callers |-> Idle]
    /\ last = NoCall
    /\ issued = [k \in TestKeys |-> 0]
    /\ granted = [k \in TestKeys |-> 0]
    /\ recent = [k \in TestKeys |-> [i \in 1..(WindowTicks + 1) |-> 0]]
    /\ rejectedEarlier = [k \in TestKeys |-> FALSE]
    /\ trusted_networks = {}
    /\ IdentityQuiet
    /\ PipelineQuiet
    /\ TelegramQuiet
    /\ AuthQuiet

NextLimiter ==
    \/ \E c \in Callers, key \in TestKeys : AllowIncr(c, key)
    \/ \E c \in Callers : AllowExpire(c)
    \/ \E c \in Callers : AllowAbandon(c)
    \/ Tick

SpecLimiter == InitLimiter /\ [][NextLimiter]_vars

(***************************************************************************)
(* SpecIdentity: default_identifier applied to requests drawn from bounded *)
(* sets, under each of the trusted-proxy configurations                    *)
(***************************************************************************)
\* request.client.host: two addresses outside every trusted network, two
\* inside 10.0.0.0/8, a host name that is no address, and no client at all
ProbeHosts == {ClientU, ClientV, ProxyP, ProxyQ, "testclient", None}

\* X-Forwarded-For: missing, one entry, several entries
ProbeHeaders == {<<>>, <<ClientV>>, <<ClientU, ProxyQ>>, <<ProxyP, ClientV>>}

TrustedProxyConfigs == {{}, {Net10}, {Net10, {ClientV}}}

Resolve(i) ==
    /\ \E host \in ProbeHosts, fwd \in ProbeHeaders :
          LET request == [client_host |-> host, forwarded |-> fwd] IN
            probe' = [probe EXCEPT ![i] =
                        [client_host |-> host, forwarded |-> fwd,
                         identity |-> default_identifier(request)]]
    /\ UNCHANGED <<redis, limiterVars, trusted_networks, telegramVars, authVars, pipelineVars>>

InitIdentity ==
    /\ redis = <<>>
    /\ LimiterQuiet
    /\ trusted_networks \in TrustedProxyConfigs
    /\ IdentityQuiet
    /\ PipelineQuiet
    /\ TelegramQuiet
    /\ AuthQuiet

NextIdentity == \E i \in Probes : Resolve(i)

SpecIdentity == InitIdentity /\ [][NextIdentity]_vars

(***************************************************************************)
(* Spec: HTTP requests through the middleware chain of create_application  *)
(* (GlobalRateLimitMiddleware, then BodySizeLimitMiddleware, then the      *)
(* router with each route's dependencies, then the route handler)          *)
(***************************************************************************)
\* what a client can ask for: path (by route name) and method
Endpoints ==
    {[route |-> "healthz", method |-> "GET"],
     [route |-> "login", method |-> "POST"],
     [route |-> "usage", method |-> "POST"],
     [route |-> "admin", method |-> "PATCH"],
     [route |-> "unknown", method |-> "PUT"],
     [route |-> "unknown", method |-> "DELETE"],
     [route |-> "unknown", method |-> "GET"]}

\* every client of Spec sits behind one address and sends an X-Forwarded-For
\* header naming another
PipelineHeaders == {<<ClientV>>}

\* body lengths a client sends: the ceiling, one byte more
BodySizes == {request_body_max_bytes, request_body_max_bytes + 1}

\* Telegram users who call: one of the allowlist and one who is not on it
TelegramIds == {1350430976, 555000111}

\* init-data as sent (header X-Telegram-Init-Data or body field init_data):
\* missing, present with a signature that does not verify, or present and
\* valid for a Telegram user
NoInitData == [present |-> FALSE, signed |-> FALSE, id |-> 0]

InitDataSent ==
    {NoInitData, [present |-> TRUE, signed |-> FALSE, id |-> 555000111]}
        \cup {[present |-> TRUE, signed |-> TRUE, id |-> t] : t \in TelegramIds}

\* seconds of a usage report: below, inside and above the accepted range
SecondsSent == {0, 3600, 21601}

\* verify_telegram_init_data (telegram.py lines 99-118), by its outcome
verify_telegram_init_data(data) ==
    IF ~data.present THEN [ok |-> FALSE, detail |-> "missing_telegram_payload", id |-> 0]
    ELSE IF ~data.signed THEN [ok |-> FALSE, detail |-> "invalid_signature", id |-> 0]
    ELSE [ok |-> TRUE, detail |-> "", id |-> data.id]

\* get_telegram_auth_data (deps.py lines 18-28)
get_telegram_auth_data(header) ==
    IF ~header.present
    THEN [ok |-> FALSE, detail |-> "missing_telegram_payload", id |-> 0]
    ELSE verify_telegram_init_data(header)

\* a validator that lets a report of zero seconds through
validate_seconds_lax(value) == ~(value < 0) /\ ~(value > 6 * 60 * 60)

\* UserUsageUpdate.validate_seconds (schemas/user.py lines 20-27)
validate_seconds(value) == ~(value <= 0) /\ ~(value > 6 * 60 * 60)

\* BodySizeLimitMiddleware._methods
BodyLimitMethods == {"POST", "PUT", "PATCH", "DELETE"}

\* a body check that lets the ceiling + 1 through
BodyTooLargeLoose(method, length) ==
    method \in BodyLimitMethods /\ length > request_body_max_bytes + 1

\* BodySizeLimitMiddleware.dispatch lines 14-18: the request is rejected
BodyTooLarge(method, length) ==
    method \in BodyLimitMethods /\ length > request_body_max_bytes

\* the scope each rate-limited route passes to rate_limit_dependency
ScopeOf(route) ==
    CASE route = "login" -> "auth"
      [] route = "usage" -> "usage"
      [] route = "admin" -> "admin"

ScopeLimit(scope) ==
    CASE scope = "auth" -> auth_rate_limit_per_minute
      [] scope = "usage" -> usage_rate_limit_per_minute
      [] scope = "admin" -> admin_rate_limit_per_minute

\* rate_limit_dependency line 67: identifier(request) if identifier else
\* default_identifier(request); auth passes none, admin and usage pass
\* user_identifier
ScopeIdentity(scope, request) ==
    IF scope = "auth" THEN default_identifier(request) ELSE user_identifier(request)

\* tokens whose subject is the Telegram id
telegram_id_subject(user) == user.telegram_id

\* login lines 57-58: create_access_token(user.id), create_refresh_token(user.id)
token_subject(user) == user.id

\* the response leaves, the connection is free again; resp shows a response
\* in the state that follows its sending and is blank in every other state
Respond(s, r, status, detail) ==
    /\ resp' = [r EXCEPT !.pc = "done", !.status = status, !.detail = detail]
    /\ req' = [req EXCEPT ![s] = Free]

Continue(s, r) ==
    /\ req' = [req EXCEPT ![s] = r]
    /\ resp' = Free

\* a request arrives on a free connection
Arrive(s) ==
    /\ req[s].pc = "free"
    /\ arrived < MaxRequests
    /\ arrived' = arrived + 1
    /\ \E e \in Endpoints, fwd \in PipelineHeaders :
          req' = [req EXCEPT ![s] =
                    [Free EXCEPT !.pc = "global", !.route = e.route, !.method = e.method,
                                 !.client_host = ClientU, !.forwarded = fwd]]
    /\ resp' = Free
    /\ UNCHANGED <<redis, users, limiterVars, trusted_networks, telegramVars, authVars, identityVars>>

\* GlobalRateLimitMiddleware.dispatch lines 22-27, once allow has returned
GlobalDecide(s, r) ==
    LET q == [r EXCEPT !.count = 0, !.gover = r.count > global_rate_limit_max_requests] IN
      IF Allowed(r.count, global_rate_limit_max_requests)
      THEN Continue(s, [q EXCEPT !.pc = "body"])
      ELSE Respond(s, q, 429, "service_overloaded")

\* GlobalRateLimitMiddleware.dispatch lines 16-21: allow's INCR round trip
GlobalIncr(s) ==
    /\ req[s].pc = "global"
    /\ LET key == "global:" \o default_identifier(req[s])
           rkey == RedisKey(key)
       IN
         /\ CountOf(redis, rkey) < global_rate_limit_max_requests + MaxOver
         /\ redis' = Incr(redis, rkey)
         /\ LET count == CountOf(redis', rkey)
                r == [req[s] EXCEPT !.gkey = key, !.count = count]
            IN
              IF NeedsExpire(count)
              THEN Continue(s, [r EXCEPT !.pc = "global_expire"])
              ELSE GlobalDecide(s, r)
    /\ UNCHANGED <<users, arrived, limiterVars, trusted_networks, telegramVars, authVars, identityVars>>

\* allow's EXPIRE round trip for the global counter
GlobalExpire(s) ==
    /\ req[s].pc = "global_expire"
    /\ redis' = Expire(redis, RedisKey(req[s].gkey), global_rate_limit_window_seconds)
    /\ GlobalDecide(s, req[s])
    /\ UNCHANGED <<users, arrived, limiterVars, trusted_networks, telegramVars, authVars, identityVars>>

\* BodySizeLimitMiddleware.dispatch: the body arrives and is measured for
\* the methods of _methods only
BodyLimit(s) ==
    /\ req[s].pc = "body"
    /\ \E length \in BodySizes :
          LET r == [req[s] EXCEPT !.body = length] IN
            IF BodyTooLarge(r.method, length)
            THEN Respond(s, r, 413, "payload_too_large")
            ELSE Continue(s, [r EXCEPT !.pc = "route"])
    /\ UNCHANGED <<redis, users, arrived, limiterVars, trusted_networks, telegramVars, authVars, identityVars>>

\* routing, and the route's dependencies up to the first one that waits:
\*   /healthz (main.py lines 45-47)             no dependency, answers at once
\*   unknown path                                404
\*   login (auth.py lines 26-32)                 auth_rate_limit
\*   usage (users.py lines 37-46)                get_telegram_auth_data, then usage_rate_limit
\*   admin (content.py lines 106-110)            require_admin_user -> get_current_user
\*                                               -> get_telegram_auth_data, get_or_create
Route(s) ==
    /\ req[s].pc = "route"
    /\ LET r == req[s] IN
         \/ /\ r.route = "unknown"
            /\ Respond(s, r, 404, "Not Found")
         \/ /\ r.route = "healthz"
            /\ Respond(s, [r EXCEPT !.handled = TRUE], 200, "ok")
         \/ /\ r.route = "login"
            /\ Continue(s, [r EXCEPT !.pc = "scope",
                                     !.skey = "auth:" \o ScopeIdentity("auth", r)])
         \/ /\ r.route \in {"usage", "admin"}
            /\ \E header \in InitDataSent :
                  LET auth == get_telegram_auth_data(header) IN
                    IF ~auth.ok THEN Respond(s, r, 401, auth.detail)
                    ELSE IF r.route = "usage"
                    THEN Continue(s, [r EXCEPT !.pc = "scope", !.tg = auth.id,
                                      !.skey = "usage:" \o ScopeIdentity("usage", r)])
                    ELSE Continue(s, [r EXCEPT !.pc = "ensure_read", !.tg = auth.id])
    /\ UNCHANGED <<redis, users, arrived, limiterVars, trusted_networks, telegramVars, authVars, identityVars>>

\* rate_limit_dependency lines 69-73, once allow has returned
ScopeDecide(s, r) ==
    LET q == [r EXCEPT !.count = 0, !.sover = r.count > ScopeLimit(ScopeOf(r.route))] IN
      IF Allowed(r.count, ScopeLimit(ScopeOf(r.route)))
      THEN Continue(s, [q EXCEPT !.pc = "endpoint"])
      ELSE Respond(s, q, 429, "rate_limit_exceeded")

\* rate_limit_dependency line 68: allow's INCR round trip on <scope>:<identity>
ScopeIncr(s) ==
    /\ req[s].pc = "scope"
    /\ LET rkey == RedisKey(req[s].skey) IN
         /\ CountOf(redis, rkey) < ScopeLimit(ScopeOf(req[s].route)) + MaxOver
         /\ redis' = Incr(redis, rkey)
         /\ LET count == CountOf(redis', rkey)
                r == [req[s] EXCEPT !.count = count]
            IN
              IF NeedsExpire(count)
              THEN Continue(s, [r EXCEPT !.pc = "scope_expire"])
              ELSE ScopeDecide(s, r)
    /\ UNCHANGED <<users, arrived, limiterVars, trusted_networks, telegramVars, authVars, identityVars>>

\* allow's EXPIRE round trip for the scope counter (window_seconds=60)
ScopeExpire(s) ==
    /\ req[s].pc = "scope_expire"
    /\ redis' = Expire(redis, RedisKey(req[s].skey), WindowTicks)
    /\ ScopeDecide(s, req[s])
    /\ UNCHANGED <<users, arrived, limiterVars, trusted_networks, telegramVars, authVars, identityVars>>

\* every dependency has passed: the body is validated and the handler starts
\*   login  authenticate_telegram_miniapp lines 37-45: verify init_data
\*   usage  UserUsageUpdate, then report_usage_time -> add_usage_time
\*   admin  the content handler (ContentService, outside this model's state)
Endpoint(s) ==
    /\ req[s].pc = "endpoint"
    /\ LET r == req[s] IN
         \/ /\ r.route = "admin"
            /\ Respond(s, [r EXCEPT !.handled = TRUE], 200, "ok")
         \/ /\ r.route = "login"
            /\ \E init_data \in InitDataSent :
                  LET auth == verify_telegram_init_data(init_data) IN
                    IF ~auth.ok
                    THEN Respond(s, [r EXCEPT !.handled = TRUE], 401, auth.detail)
                    ELSE Continue(s, [r EXCEPT !.handled = TRUE, !.pc = "ensure_read",
                                              !.tg = auth.id])
         \/ /\ r.route = "usage"
            /\ \E seconds \in SecondsSent :
                  IF ~validate_seconds(seconds)
                  THEN Respond(s, [r EXCEPT !.seconds = seconds], 422, "seconds")
                  ELSE Continue(s, [r EXCEPT !.handled = TRUE, !.pc = "ensure_read",
                                            !.seconds = seconds])
    /\ UNCHANGED <<redis, users, arrived, limiterVars, trusted_networks, telegramVars, authVars, identityVars>>

\* what follows UserService._ensure_user for the user row `row`:
\*   admin  get_current_user line 45 sets request.state.user_id,
\*          require_admin_user answers 403 unless is_admin, then admin_rate_limit
\*   login  lines 57-60: the token pair for user.id
\*   usage  add_usage_time line 111 changes the loaded row, the commit follows
AfterEnsure(s, r, row) ==
    CASE r.route = "admin" ->
            LET q == [r EXCEPT !.user_id = row.id] IN
              IF ~row.is_admin THEN Respond(s, q, 403, "admin_only")
              ELSE Continue(s, [q EXCEPT !.pc = "scope",
                                        !.skey = "admin:" \o ScopeIdentity("admin", q)])
      [] r.route = "login" -> Respond(s, [r EXCEPT !.sub = token_subject(row)], 200, "ok")
      [] r.route = "usage" ->
            Continue(s, [r EXCEPT !.pc = "usage_commit", !.seen = row.app_seconds_spent])

\* _ensure_user line 22: get_by_telegram_id; an existing row needs no write
\* here (is_admin is recomputed from the allowlist, which does not change)
EnsureRead(s) ==
    /\ req[s].pc = "ensure_read"
    /\ IF req[s].tg \in DOMAIN users
       THEN AfterEnsure(s, req[s], users[req[s].tg])
       ELSE Continue(s, [req[s] EXCEPT !.pc = "ensure_create"])
    /\ UNCHANGED <<redis, users, arrived, limiterVars, trusted_networks, telegramVars, authVars, identityVars>>

\* _ensure_user lines 26-36 and 57-59: create, flush, commit. telegram_id is
\* unique (models/user.py line 13): the insert of a row that exists by now
\* raises, and nothing catches it
EnsureCreate(s) ==
    /\ req[s].pc = "ensure_create"
    /\ LET r == req[s] IN
         IF r.tg \in DOMAIN users
         THEN /\ Respond(s, r, 500, "Internal Server Error")
              /\ UNCHANGED users
         ELSE LET row == [id |-> Cardinality(DOMAIN users) + 1,
                          telegram_id |-> r.tg,
                          is_admin |-> r.tg \in admin_telegram_ids,
                          app_seconds_spent |-> 0]
              IN
                /\ users' = [t \in DOMAIN users \cup {r.tg} |->
                                IF t = r.tg THEN row ELSE users[t]]
                /\ AfterEnsure(s, r, row)
    /\ UNCHANGED <<redis, arrived, limiterVars, trusted_networks, telegramVars, authVars, identityVars>>

\* add_usage_time lines 111-114: the row as loaded plus seconds is written
UsageCommit(s) ==
    /\ req[s].pc = "usage_commit"
    /\ users' = [users EXCEPT ![req[s].tg].app_seconds_spent = req[s].seen + req[s].seconds]
    /\ Respond(s, req[s], 200, "ok")
    /\ UNCHANGED <<redis, arrived, limiterVars, trusted_networks, telegramVars, authVars, identityVars>>

\* the client disconnects while the request waits: the transport abandons it
Abandon(s) ==
    /\ req[s].pc # "free"
    /\ req' = [req EXCEPT ![s] = Free]
    /\ resp' = Free
    /\ UNCHANGED <<redis, users, arrived, limiterVars, trusted_networks, telegramVars, authVars, identityVars>>

\* no request is in flight and traffic pauses for as long as the longest
\* window: the clock ticks that many times and every counter that has an
\* expiry is gone
Pause ==
    /\ \A s \in Slots : req[s].pc = "free"
    /\ \E k \in DOMAIN redis : redis[k].ttl # NoTTL
    /\ redis' = ElapseTicks(redis, LongestWindow)
    /\ resp' = Free
    /\ UNCHANGED <<req, users, arrived, limiterVars, trusted_networks, telegramVars, authVars, identityVars>>

Init ==
    /\ redis = <<>>
    /\ LimiterQuiet
    /\ trusted_networks = {}
    /\ IdentityQuiet
    /\ PipelineQuiet
    /\ TelegramQuiet
    /\ AuthQuiet

Next ==
    \/ \E s \in Slots : Arrive(s)
    \/ \E s \in Slots : GlobalIncr(s)
    \/ \E s \in Slots : GlobalExpire(s)
    \/ \E s \in Slots : BodyLimit(s)
    \/ \E s \in Slots : Route(s)
    \/ \E s \in Slots : ScopeIncr(s)
    \/ \E s \in Slots : ScopeExpire(s)
    \/ \E s \in Slots : Endpoint(s)
    \/ \E s \in Slots : EnsureRead(s)
    \/ \E s \in Slots : EnsureCreate(s)
    \/ \E s \in Slots : UsageCommit(s)
    \/ \E s \in Slots : Abandon(s)
    \/ Pause

Spec == Init /\ [][Next]_vars

(***************************************************************************)
(* SpecTelegram: verify_and_destructure_init_data (core/telegram.py)       *)
(* applied to init-data drawn from bounded sets. The init-data is the      *)
(* query string as parse_qsl reads it: a function from keys to values.     *)
(***************************************************************************)
\* ALLOWED_TIME_SKEW_SECONDS, line 15
ALLOWED_TIME_SKEW_SECONDS == 60 * 60

\* int(time.time()) when the init-data is verified
Now == 1700000000

\* settings.telegram_bot_token, and the token of some other bot
telegram_bot_token == "bot-token"

OtherBotToken == "other-bot-token"

\* hmac.new(key, msg, sha256) as a term: equal digests iff equal key and message
HmacSha256(key, msg) == "hmac<" \o key \o "|" \o msg \o ">"

\* _compute_hash, lines 28-31
compute_hash(data_check_string, bot_token) ==
    HmacSha256(HmacSha256("WebAppData", bot_token), data_check_string)

\* the keys init-data can carry, in the order sorted() puts them
KeyOrder == <<"auth_date", "hash", "query_id", "user">>

RECURSIVE JoinLines(_)
\* "\n".join(pairs)
JoinLines(pairs) ==
    IF pairs = <<>> THEN ""
    ELSE IF Len(pairs) = 1 THEN pairs[1]
    ELSE pairs[1] \o "\n" \o JoinLines(Tail(pairs))

\* the keys in reverse order
ReverseKeyOrder == <<"user", "query_id", "hash", "auth_date">>

\* a check string whose lines are not in sorted order
build_data_check_string_unsorted(data) ==
    LET keys == SelectSeq(ReverseKeyOrder, LAMBDA k : k \in DOMAIN data /\ k # "hash")
    IN JoinLines([i \in 1..Len(keys) |-> keys[i] \o "=" \o data[keys[i]]])

\* _build_data_check_string, lines 18-25
build_data_check_string(data) ==
    LET keys == SelectSeq(KeyOrder, LAMBDA k : k \in DOMAIN data /\ k # "hash")
    IN JoinLines([i \in 1..Len(keys) |-> keys[i] \o "=" \o data[keys[i]]])

\* the integers whose decimal text appears in init-data
IntValues == {0, -5, 1, 2, 9, 42, 43, Now - 3601, Now - 3600, Now - 3599, Now + 50}

\* int(text): the texts Python parses as an integer, and their value
IsIntText(text) == \E n \in IntValues : ToString(n) = text

ParseInt(text) == CHOOSE n \in IntValues : ToString(n) = text

\* responses of the verification
Identity(id) == [status |-> 200, detail |-> "", id |-> id]

Unauthorized(detail) == [status |-> 401, detail |-> detail, id |-> 0]

\* an exception that is no HTTPException reaches the server's handler
ServerError == [status |-> 500, detail |-> "Internal Server Error", id |-> 0]

\* json.loads on the user texts of the model: the kind of value, what `in`
\* finds in it (keys of an object, items of a list, substrings of a string)
\* and the value at "id"
json_loads(text) ==
    CASE text = "{bad" -> [ok |-> FALSE, kind |-> "", has |-> {}, id |-> <<>>]
      [] text = "null" -> [ok |-> TRUE, kind |-> "null", has |-> {}, id |-> <<>>]
      [] text = "7" -> [ok |-> TRUE, kind |-> "number", has |-> {}, id |-> <<>>]
      [] text = "[]" -> [ok |-> TRUE, kind |-> "list", has |-> {}, id |-> <<>>]
      [] text = "[\"id\"]" -> [ok |-> TRUE, kind |-> "list", has |-> {"id"}, id |-> <<>>]
      [] text = "\"id\"" -> [ok |-> TRUE, kind |-> "string", has |-> {"id"}, id |-> <<>>]
      [] text = "{}" -> [ok |-> TRUE, kind |-> "object", has |-> {}, id |-> <<>>]
      [] text = "{\"id\":42}" ->
            [ok |-> TRUE, kind |-> "object", has |-> {"id"},
             id |-> [kind |-> "int", text |-> "42"]]
      [] text = "{\"id\":\"43\"}" ->
            [ok |-> TRUE, kind |-> "object", has |-> {"id"},
             id |-> [kind |-> "str", text |-> "43"]]
      [] text = "{\"id\":\"abc\"}" ->
            [ok |-> TRUE, kind |-> "object", has |-> {"id"},
             id |-> [kind |-> "str", text |-> "abc"]]
      [] text = "{\"id\":null}" ->
            [ok |-> TRUE, kind |-> "object", has |-> {"id"},
             id |-> [kind |-> "null", text |-> ""]]

\* TelegramAuthData.validate_auth_date (schemas/auth.py lines 18-23)
validate_auth_date(value) == ~(value <= 0)

\* a text with a character outside ASCII
NonAsciiText == "<U+00E9>"

\* hmac.compare_digest on two str: TypeError when one holds a character
\* outside ASCII, else whether they are equal
compare_digest(a, b) ==
    IF a = NonAsciiText \/ b = NonAsciiText THEN "TypeError"
    ELSE IF a = b THEN "equal" ELSE "differ"

\* a timestamp check that rejects the age 3600 too
validate_timestamp_early(auth_date, time) == ~(time - auth_date >= ALLOWED_TIME_SKEW_SECONDS)

\* _validate_timestamp, lines 34-40: the timestamp passes
validate_timestamp(auth_date, time) == ~(time - auth_date > ALLOWED_TIME_SKEW_SECONDS)

\* parse_telegram_init_data, lines 43-55
parse_telegram_init_data(raw_init_data) ==
    IF raw_init_data.empty THEN Unauthorized("missing_telegram_payload")
    ELSE IF "hash" \notin DOMAIN raw_init_data.params THEN Unauthorized("invalid_payload")
    ELSE Identity(0)

\* _build_auth_payload, lines 58-96, followed by _validate_timestamp (line 112)
build_auth_payload(params, time) ==
    IF "user" \notin DOMAIN params \/ params["user"] = ""
    THEN Unauthorized("missing_user_payload")
    ELSE LET user_payload == json_loads(params["user"]) IN
      IF ~user_payload.ok THEN Unauthorized("invalid_user_payload")
      \* line 73: `in` on None or a number raises TypeError
      ELSE IF user_payload.kind \in {"null", "number"} THEN ServerError
      ELSE IF "id" \notin user_payload.has THEN Unauthorized("missing_user_id")
      ELSE LET auth_date_raw ==
                  IF "auth_date" \in DOMAIN params THEN params["auth_date"] ELSE "0"
           IN
        IF ~IsIntText(auth_date_raw) THEN Unauthorized("invalid_auth_date")
        \* line 87: user_payload["id"] on a list or a string raises TypeError,
        \* int() of None raises TypeError, of a non-numeric text ValueError
        ELSE IF user_payload.kind # "object" THEN ServerError
        ELSE IF user_payload.id.kind = "null" THEN ServerError
        ELSE IF ~IsIntText(user_payload.id.text) THEN ServerError
        \* the field validator's ValueError leaves the model as a ValidationError
        ELSE IF ~validate_auth_date(ParseInt(auth_date_raw)) THEN ServerError
        ELSE IF ~validate_timestamp(ParseInt(auth_date_raw), time)
        THEN Unauthorized("auth_expired")
        ELSE Identity(ParseInt(user_payload.id.text))

\* verify_and_destructure_init_data, lines 99-113
verify_and_destructure_init_data(raw_init_data, time) ==
    LET parsed == parse_telegram_init_data(raw_init_data) IN
      IF parsed.status # 200 THEN parsed
      ELSE LET params == raw_init_data.params
               expected_hash ==
                   compute_hash(build_data_check_string(params), telegram_bot_token)
               same == compare_digest(expected_hash, params["hash"])
           IN
             IF same = "TypeError" THEN ServerError
             ELSE IF same # "equal" THEN Unauthorized("invalid_signature")
             ELSE build_auth_payload(params, time)

\* ---- the init-data a client can send ----
Absent == "<absent>"

AuthDateTexts ==
    {"abc", "0", "-5", ToString(Now - 3601), ToString(Now - 3600),
     ToString(Now - 3599), ToString(Now + 50)}

UserTexts ==
    {"", "{bad", "null", "7", "[]", "[\"id\"]", "\"id\"", "{}", "{\"id\":42}",
     "{\"id\":\"43\"}", "{\"id\":\"abc\"}", "{\"id\":null}"}

QueryIdTexts == {"AAHdF6IQ"}

\* the fields other than hash, each present or not
Fields(a, u, q) ==
    LET present == (IF a # Absent THEN {"auth_date"} ELSE {})
                       \cup (IF u # Absent THEN {"user"} ELSE {})
                       \cup (IF q # Absent THEN {"query_id"} ELSE {})
    IN [k \in present |-> CASE k = "auth_date" -> a [] k = "user" -> u [] k = "query_id" -> q]

FieldSets ==
    {Fields(a, u, q) : a \in AuthDateTexts \cup {Absent}, u \in UserTexts \cup {Absent},
                       q \in QueryIdTexts \cup {Absent}}

\* the signature Telegram puts on the fields: the HMAC, under the key derived
\* from the bot token, of the lines key=value of all fields in sorted order
CanonicalCheckString(fields) ==
    LET keys == SelectSeq(<<"auth_date", "query_id", "user">>, LAMBDA k : k \in DOMAIN fields)
    IN JoinLines([i \in 1..Len(keys) |-> keys[i] \o "=" \o fields[keys[i]]])

TelegramSignature(fields) ==
    HmacSha256(HmacSha256("WebAppData", telegram_bot_token), CanonicalCheckString(fields))

\* the hash values sent with the fields: Telegram's, one made with another
\* bot's token, Telegram's with one character changed, a blank one, one with
\* a character outside ASCII
HashesFor(fields) ==
    {TelegramSignature(fields),
     HmacSha256(HmacSha256("WebAppData", OtherBotToken), CanonicalCheckString(fields)),
     "x" \o TelegramSignature(fields),
     "",
     NonAsciiText}

WithHash(fields, h) ==
    [k \in DOMAIN fields \cup {"hash"} |-> IF k = "hash" THEN h ELSE fields[k]]

Blobs ==
    {NoBlob}
        \cup {[empty |-> FALSE, params |-> f] : f \in FieldSets}
        \cup UNION {{[empty |-> FALSE, params |-> WithHash(f, h)] : h \in HashesFor(f)} :
                        f \in FieldSets}

\* the init-data arrives and is verified
Verify ==
    /\ verdict = NoVerdict
    /\ verdict' = verify_and_destructure_init_data(blob, Now)
    /\ UNCHANGED <<blob, redis, limiterVars, trusted_networks, identityVars,
                   pipelineVars, authVars>>

InitTelegram ==
    /\ redis = <<>>
    /\ LimiterQuiet
    /\ trusted_networks = {}
    /\ IdentityQuiet
    /\ PipelineQuiet
    /\ blob \in Blobs
    /\ verdict = NoVerdict
    /\ AuthQuiet

NextTelegram == Verify

SpecTelegram == InitTelegram /\ [][NextTelegram]_vars

(***************************************************************************)
(* SpecAuth: login, refresh, /users/me and usage requests (auth.py,        *)
(* users.py) on the users table (services/user.py, repositories/user.py)   *)
(* with the session tokens of core/security.py. Requests start here once   *)
(* their init-data is verified; time is in ticks.                          *)
(***************************************************************************)
MaxClock == 3           \* the clock stops here
MaxAuthRequests == 2    \* requests received in one behaviour of SpecAuth

\* settings.access_token_expire_minutes and refresh_token_expire_days, in ticks
access_token_expire_minutes == 1
refresh_token_expire_days == 2

\* the profile fields init-data carries, as get_or_create receives them
Profiles ==
    {[username |-> "ann", first_name |-> "Ann", last_name |-> None,
      locale |-> "en", avatar_url |-> None],
     [username |-> "ann_b", first_name |-> "Ann", last_name |-> None,
      locale |-> "en", avatar_url |-> None]}

\* seconds of a usage report (valid ones: the schema has passed)
UsageSeconds == {3600}

\* ---- core/security.py ----
\* create_access_token / create_refresh_token: the claims, signed with
\* settings.jwt_secret; exp is the time of issue plus the lifetime
create_access_token(subject, time) ==
    [sub |-> ToString(subject), exp |-> time + access_token_expire_minutes,
     type |-> "access", signed |-> TRUE]

create_refresh_token(subject, time) ==
    [sub |-> ToString(subject), exp |-> time + refresh_token_expire_days,
     type |-> "refresh", signed |-> TRUE]

\* tokens the service did not issue: signed with another secret, signed with
\* the service's secret but with a sub that is no integer, the id of no
\* user, or no type claim
ForeignTokens ==
    {[sub |-> "1", exp |-> MaxClock + 1, type |-> "refresh", signed |-> FALSE],
     [sub |-> "abc", exp |-> MaxClock + 1, type |-> "refresh", signed |-> TRUE],
     [sub |-> "9", exp |-> MaxClock + 1, type |-> "refresh", signed |-> TRUE],
     [sub |-> "1", exp |-> MaxClock + 1, type |-> "", signed |-> TRUE]}

\* decode_token, lines 25-29: jwt.decode rejects a bad signature, and an exp
\* that lies before the current time
decode_token(token, time) == token.signed /\ ~(token.exp < time)

\* a type check that lets every token through
any_type(payload_data) == TRUE

\* refresh_tokens line 89
is_refresh(payload_data) == payload_data.type = "refresh"

\* ---- repositories/user.py ----
\* a lookup that returns the first row whatever the id
get_first(tbl, user_id) == IF Len(tbl) > 0 THEN tbl[1] ELSE <<>>

\* get_by_id, lines 11-13 (<<>> for None)
get_by_id(tbl, user_id) ==
    IF \E i \in 1..Len(tbl) : tbl[i].id = user_id
    THEN tbl[CHOOSE i \in 1..Len(tbl) : tbl[i].id = user_id]
    ELSE <<>>

\* get_by_telegram_id, lines 15-17 (<<>> for None)
get_by_telegram_id(tbl, telegram_id) ==
    IF \E i \in 1..Len(tbl) : tbl[i].telegram_id = telegram_id
    THEN tbl[CHOOSE i \in 1..Len(tbl) : tbl[i].telegram_id = telegram_id]
    ELSE <<>>

\* a table without the constraint
no_unique_constraint(tbl, telegram_id) == FALSE

\* models/user.py line 13, unique=True: the INSERT of create (flush) fails
\* when a committed row has the telegram_id
unique_violation(tbl, telegram_id) ==
    \E i \in 1..Len(tbl) : tbl[i].telegram_id = telegram_id

\* create, lines 19-42: the new row; the id is the next of the sequence
create(tbl, telegram_id, profile, is_admin) ==
    [id |-> Len(tbl) + 1, telegram_id |-> telegram_id,
     username |-> profile.username, first_name |-> profile.first_name,
     last_name |-> profile.last_name, locale |-> profile.locale,
     avatar_url |-> profile.avatar_url, is_admin |-> is_admin,
     app_seconds_spent |-> 0]

\* ---- services/user.py ----
should_be_admin(telegram_id) == telegram_id \in admin_telegram_ids

\* an upsert that writes on every login
always_updated(user, profile, admin) == TRUE

\* _ensure_user lines 38-55: some field differs from the stored one
updated(user, profile, admin) ==
    \/ user.username # profile.username
    \/ user.first_name # profile.first_name
    \/ user.last_name # profile.last_name
    \/ user.locale # profile.locale
    \/ user.avatar_url # profile.avatar_url
    \/ user.is_admin # admin

\* lines 38-55 and the UPDATE of the commit: the attributes that differ on
\* the row as loaded are set, and only these columns are written to the
\* stored row `user`
assign(user, loaded, profile, admin) ==
    [user EXCEPT
        !.username = IF loaded.username # profile.username THEN profile.username ELSE @,
        !.first_name = IF loaded.first_name # profile.first_name THEN profile.first_name ELSE @,
        !.last_name = IF loaded.last_name # profile.last_name THEN profile.last_name ELSE @,
        !.locale = IF loaded.locale # profile.locale THEN profile.locale ELSE @,
        !.avatar_url = IF loaded.avatar_url # profile.avatar_url THEN profile.avatar_url ELSE @,
        !.is_admin = IF loaded.is_admin # admin THEN admin ELSE @]

\* the response leaves, the connection is free again
Answer(a, r, status, detail) ==
    /\ out' = [r EXCEPT !.pc = "done", !.status = status, !.detail = detail]
    /\ sess' = [sess EXCEPT ![a] = NoRequest]

Proceed(a, r) ==
    /\ sess' = [sess EXCEPT ![a] = r]
    /\ out' = NoRequest

\* the tokens a client can present
Presentable == minted \cup ForeignTokens

\* a login, /users/me or usage request whose init-data verified reaches
\* UserService; login first passes auth_rate_limit
BeginUser(a) ==
    /\ sess[a].pc = "free"
    /\ arrived < MaxAuthRequests
    /\ arrived' = arrived + 1
    /\ \E route \in {"login", "me", "usage"}, tg \in TelegramIds, profile \in Profiles,
          seconds \in UsageSeconds :
          LET r == [NoRequest EXCEPT !.route = route, !.tg = tg, !.profile = profile,
                                     !.seconds = IF route = "usage" THEN seconds ELSE 0]
          IN \/ Proceed(a, [r EXCEPT !.pc = "ensure_read"])
             \/ /\ route = "login"
                /\ Answer(a, r, 429, "rate_limit_exceeded")
    /\ UNCHANGED <<db, clock, minted, accepted>>
    /\ UNCHANGED <<redis, limiterVars, trusted_networks, identityVars, req, resp, users,
                   telegramVars>>

\* refresh_tokens lines 74-116: the detail of the 401 that decode_token
\* (74-87), the type check (89-100) or int(sub) (102-116) ends in, "" when
\* all three pass
refresh_rejection(token, time) ==
    IF ~decode_token(token, time) THEN "invalid_refresh_token"
    ELSE IF ~is_refresh(token) THEN "invalid_refresh_token"
    ELSE IF ~IsIntText(token.sub) THEN "invalid_refresh_token"
    ELSE ""

\* refresh_tokens lines 70-116: auth_rate_limit, then decode_token, the type
\* check and int(sub), all before the handler first waits
BeginRefresh(a) ==
    /\ sess[a].pc = "free"
    /\ arrived < MaxAuthRequests
    /\ arrived' = arrived + 1
    /\ \E token \in Presentable :
          LET r == [NoRequest EXCEPT !.route = "refresh", !.token = token, !.at = clock]
          IN \/ Answer(a, r, 429, "rate_limit_exceeded")
             \/ IF refresh_rejection(token, clock) # ""
                THEN Answer(a, r, 401, refresh_rejection(token, clock))
                ELSE Proceed(a, [r EXCEPT !.pc = "lookup"])
    /\ UNCHANGED <<db, clock, minted, accepted>>
    /\ UNCHANGED <<redis, limiterVars, trusted_networks, identityVars, req, resp, users,
                   telegramVars>>

\* lines 57-60 and 143-146: the token pair for the user
Issue(a, r, user) ==
    LET pair == <<create_access_token(user.id, clock), create_refresh_token(user.id, clock)>>
    IN /\ minted' = minted \cup {pair[1], pair[2]}
       /\ Answer(a, [r EXCEPT !.row = user, !.pair = pair], 200, "ok")

\* refresh_tokens lines 118-146: get_by_id, then the new pair
RefreshLookup(a) ==
    /\ sess[a].pc = "lookup"
    /\ LET r == sess[a]
           user_model == get_by_id(db, ParseInt(r.token.sub))
       IN IF user_model = <<>>
          THEN /\ Answer(a, r, 401, "user_not_found")
               /\ UNCHANGED <<minted, accepted>>
          ELSE /\ Issue(a, r, user_model)
               /\ accepted' = accepted \cup {r.token}
    /\ UNCHANGED <<db, clock>>
    /\ UNCHANGED <<redis, limiterVars, trusted_networks, identityVars, pipelineVars,
                   telegramVars>>

\* what follows _ensure_user with the row `user`:
\*   login  authenticate_telegram_miniapp lines 57-60
\*   me     get_current_user line 34
\*   usage  add_usage_time lines 111-112
AfterUser(a, r, user) ==
    CASE r.route = "login" -> Issue(a, r, user)
      [] r.route = "me" ->
            Answer(a, [r EXCEPT !.row = user], 200, "ok") /\ UNCHANGED minted
      [] r.route = "usage" ->
            Proceed(a, [r EXCEPT !.row = user, !.pc = "usage_commit"]) /\ UNCHANGED minted

\* _ensure_user lines 22-56: get_by_telegram_id and the comparison of the
\* fields; without a difference there is no commit
EnsureUserRead(a) ==
    /\ sess[a].pc = "ensure_read"
    /\ LET user == get_by_telegram_id(db, sess[a].tg)
           r == [sess[a] EXCEPT !.read = user, !.row = user]
       IN IF user = <<>>
          THEN Proceed(a, [r EXCEPT !.pc = "ensure_create"]) /\ UNCHANGED minted
          ELSE IF updated(user, r.profile, should_be_admin(r.tg))
          THEN Proceed(a, [r EXCEPT !.pc = "ensure_update"]) /\ UNCHANGED minted
          ELSE AfterUser(a, r, user)
    /\ UNCHANGED <<db, clock, accepted>>
    /\ UNCHANGED <<redis, limiterVars, trusted_networks, identityVars, pipelineVars,
                   telegramVars>>

\* _ensure_user lines 27-36 and 57-59: create (INSERT at flush), commit,
\* refresh. The INSERT of a telegram_id that a committed row has raises
\* IntegrityError, which nothing catches
EnsureUserCreate(a) ==
    /\ sess[a].pc = "ensure_create"
    /\ LET r == sess[a] IN
         IF unique_violation(db, r.tg)
         THEN /\ Answer(a, r, 500, "Internal Server Error")
              /\ UNCHANGED <<db, minted>>
         ELSE LET user == create(db, r.tg, r.profile, should_be_admin(r.tg)) IN
                /\ db' = Append(db, user)
                /\ AfterUser(a, [r EXCEPT !.wrote = TRUE], user)
    /\ UNCHANGED <<clock, accepted>>
    /\ UNCHANGED <<redis, limiterVars, trusted_networks, identityVars, pipelineVars,
                   telegramVars>>

\* _ensure_user lines 38-59 for a row that differs: the fields are set,
\* commit writes them, refresh loads the row again
EnsureUserUpdate(a) ==
    /\ sess[a].pc = "ensure_update"
    /\ LET r == sess[a]
           user == assign(db[r.row.id], r.row, r.profile, should_be_admin(r.tg))
       IN /\ db' = [db EXCEPT ![r.row.id] = user]
          /\ AfterUser(a, [r EXCEPT !.wrote = TRUE], user)
    /\ UNCHANGED <<clock, accepted>>
    /\ UNCHANGED <<redis, limiterVars, trusted_networks, identityVars, pipelineVars,
                   telegramVars>>

\* add_usage_time lines 111-114: the loaded value plus seconds is committed
AddUsageTime(a) ==
    /\ sess[a].pc = "usage_commit"
    /\ LET r == sess[a]
           user == [db[r.row.id] EXCEPT
                       !.app_seconds_spent = r.row.app_seconds_spent + r.seconds]
       IN /\ db' = [db EXCEPT ![r.row.id] = user]
          /\ Answer(a, [r EXCEPT !.wrote = TRUE, !.row = user], 200, "ok")
    /\ UNCHANGED <<clock, minted, accepted>>
    /\ UNCHANGED <<redis, limiterVars, trusted_networks, identityVars, pipelineVars,
                   telegramVars>>

\* time passes
AuthTick ==
    /\ clock < MaxClock
    /\ clock' = clock + 1
    /\ out' = NoRequest
    /\ UNCHANGED <<db, minted, sess, accepted>>
    /\ UNCHANGED <<redis, limiterVars, trusted_networks, identityVars, pipelineVars,
                   telegramVars>>

\* the client disconnects while the request waits: the open transaction is
\* rolled back
AuthAbandon(a) ==
    /\ sess[a].pc # "free"
    /\ sess' = [sess EXCEPT ![a] = NoRequest]
    /\ out' = NoRequest
    /\ UNCHANGED <<db, clock, minted, accepted>>
    /\ UNCHANGED <<redis, limiterVars, trusted_networks, identityVars, pipelineVars,
                   telegramVars>>

InitAuth ==
    /\ redis = <<>>
    /\ LimiterQuiet
    /\ trusted_networks = {}
    /\ IdentityQuiet
    /\ PipelineQuiet
    /\ TelegramQuiet
    /\ AuthQuiet

NextAuth ==
    \/ \E a \in Sessions : BeginUser(a)
    \/ \E a \in Sessions : BeginRefresh(a)
    \/ \E a \in Sessions : RefreshLookup(a)
    \/ \E a \in Sessions : EnsureUserRead(a)
    \/ \E a \in Sessions : EnsureUserCreate(a)
    \/ \E a \in Sessions : EnsureUserUpdate(a)
    \/ \E a \in Sessions : AddUsageTime(a)
    \/ \E a \in Sessions : AuthAbandon(a)
    \/ AuthTick

SpecAuth == InitAuth /\ [][NextAuth]_vars

(***************************************************************************)
(* SpecUsers: login, /users/me and usage requests of one Telegram user,    *)
(* from the init-data they carry to the users table, which may hold the    *)
(* user already. The limiters are those of Spec and are left out here.     *)
(***************************************************************************)
MaxUserRequests == 2    \* requests received in one behaviour of SpecUsers

\* the Telegram user who calls, and another user of the service
Caller == 42

Bystander == 43

\* what the caller's init-data says about the user: the stored profile, one
\* with another username, one with another language
UserProfiles ==
    Profiles \cup {[username |-> "ann", first_name |-> "Ann", last_name |-> None,
                    locale |-> "ru", avatar_url |-> None]}

StoredProfile ==
    [username |-> "ann", first_name |-> "Ann", last_name |-> None,
     locale |-> "en", avatar_url |-> None]

\* seconds of a usage report (valid ones)
ReportSeconds == {1800, 3600}

\* the users table when the service starts: empty, or holding the bystander
\* and the caller, who has used the app for 100 seconds
UserTables ==
    {<<>>,
     <<[create(<<>>, Bystander, StoredProfile, should_be_admin(Bystander))
            EXCEPT !.app_seconds_spent = 500],
       [id |-> 2, telegram_id |-> Caller, username |-> StoredProfile.username,
        first_name |-> StoredProfile.first_name, last_name |-> StoredProfile.last_name,
        locale |-> StoredProfile.locale, avatar_url |-> StoredProfile.avatar_url,
        is_admin |-> should_be_admin(Caller), app_seconds_spent |-> 100]>>}

\* the init-data of the caller, signed by Telegram `age` seconds ago
SignedInitData(age) ==
    LET fields == Fields(ToString(Now - age), "{\"id\":42}", Absent)
    IN [empty |-> FALSE, params |-> WithHash(fields, TelegramSignature(fields))]

\* the same fields with another hash
ForgedInitData(hash) ==
    LET fields == Fields(ToString(Now - 3599), "{\"id\":42}", Absent)
    IN [empty |-> FALSE, params |-> WithHash(fields, hash)]

\* init-data as sent in X-Telegram-Init-Data or in the body of a login: none,
\* of the greatest age accepted, stale, signed with another bot's token,
\* with a hash that holds a character outside ASCII
UserInitData ==
    {NoBlob, SignedInitData(3600), SignedInitData(3601),
     ForgedInitData(HmacSha256(HmacSha256("WebAppData", OtherBotToken),
                    CanonicalCheckString(Fields(ToString(Now - 3599), "{\"id\":42}", Absent)))),
     ForgedInitData(NonAsciiText)}

\* the Authorization header: none, or an access token the service issued
Bearers == {<<>>, create_access_token(2, 0)}

\* get_telegram_auth_data (deps.py lines 18-28) on the header as received,
\* which is also what login makes of its init_data (auth.py lines 37-45)
telegram_auth_data(x_telegram_init_data, time) ==
    IF x_telegram_init_data.empty THEN Unauthorized("missing_telegram_payload")
    ELSE verify_and_destructure_init_data(x_telegram_init_data, time)

\* a login, /users/me or usage request arrives: its init-data is verified
\* before anything touches the users table; nothing on these routes reads
\* the Authorization header
BeginUpsert(a) ==
    /\ sess[a].pc = "free"
    /\ arrived < MaxUserRequests
    /\ arrived' = arrived + 1
    /\ \E route \in {"login", "me", "usage"}, header \in UserInitData, bearer \in Bearers :
          LET auth == telegram_auth_data(header, Now)
              r == [NoRequest EXCEPT !.route = route, !.header = header,
                                     !.bearer = bearer]
          IN IF auth.status # 200
             THEN Answer(a, r, auth.status, auth.detail)
             ELSE \E profile \in UserProfiles,
                     seconds \in (IF route = "usage" THEN ReportSeconds ELSE {0}) :
                     Proceed(a, [r EXCEPT !.pc = "ensure_read", !.bearer = <<>>,
                                          !.tg = auth.id, !.profile = profile,
                                          !.seconds = seconds])
    /\ UNCHANGED <<db, clock, minted, accepted>>
    /\ UNCHANGED <<redis, limiterVars, trusted_networks, identityVars, req, resp, users,
                   telegramVars>>

InitUsers ==
    /\ redis = <<>>
    /\ LimiterQuiet
    /\ trusted_networks = {}
    /\ IdentityQuiet
    /\ PipelineQuiet
    /\ TelegramQuiet
    /\ db \in UserTables
    /\ clock = 0
    /\ minted = {}
    /\ sess = [s \in Sessions |-> NoRequest]
    /\ out = NoRequest
    /\ accepted = {}

NextUsers ==
    \/ \E a \in Sessions : BeginUpsert(a)
    \/ \E a \in Sessions : EnsureUserRead(a)
    \/ \E a \in Sessions : EnsureUserCreate(a)
    \/ \E a \in Sessions : EnsureUserUpdate(a)
    \/ \E a \in Sessions : AddUsageTime(a)
    \/ \E a \in Sessions : AuthAbandon(a)

SpecUsers == InitUsers /\ [][NextUsers]_vars

(***************************************************************************)
(* Claims about RedisRateLimiter.allow, checked under SpecLimiter          *)
(***************************************************************************)
RECURSIVE SumSeq(_)
SumSeq(s) == IF s = <<>> THEN 0 ELSE Head(s) + SumSeq(Tail(s))

Returned == last.key # ""

\* the counter of key k exists and has no expiry
Untimed(k) == RedisKey(k) \in DOMAIN redis /\ redis[RedisKey(k)].ttl = NoTTL

\* some caller is between its INCR and its EXPIRE on key k
ExpirePending(k) == \E c \in Callers : calls[c].pc = "expire" /\ calls[c].key = k

\* C1: every call of allow, rejected ones included, adds exactly one to the
\* counter of its key (the counter equals the number of calls made since it
\* was created), and a call returns true iff the count it got back is <= limit.
C1_AllowCountsEveryCall ==
    /\ \A k \in TestKeys : CountOf(redis, RedisKey(k)) = issued[k]
    /\ Returned => (last.result <=> last.count <= callLimit)

\* a call was rejected although the call before it was rejected too
C1_Witness == Returned /\ ~last.result /\ last.count = callLimit + 2

\* C2: counted from the creation of the counter, the calls 1..L return true
\* and every later call of the window returns false; after the counter has
\* expired the count starts again, so the next call returns true.
C2_FirstLimitCallsPass ==
    /\ Returned => (last.result <=> last.nth <= callLimit)
    /\ \A k \in TestKeys :
          granted[k] = IF issued[k] <= callLimit THEN issued[k] ELSE callLimit

\* limit 3: a fourth call was rejected, the window expired, the next call passed
C2_Witness ==
    /\ callLimit = 3
    /\ rejectedEarlier["k1"]
    /\ Returned /\ last.key = "k1" /\ last.nth = 1 /\ last.result

\* C4: increment and expiry are one atomic step: while a counter has no
\* expiry yet, nothing else increments it and the call that created it is
\* still about to set the expiry.
C4_IncrExpireAtomic ==
    [][\A k \in TestKeys :
          Untimed(k) =>
            /\ CountOf(redis', RedisKey(k)) = CountOf(redis, RedisKey(k))
            /\ \/ redis'[RedisKey(k)].ttl # NoTTL
               \/ \E c \in Callers : calls'[c].pc = "expire" /\ calls'[c].key = k]_vars

\* C5: every counter expires: a counter that exists has an expiry, or the
\* call that created it is still about to set one.
C5_EveryCounterExpires == \A k \in TestKeys : Untimed(k) => ExpirePending(k)

\* C6: at most limit calls return true during the life of one counter, and
\* at most 2 * limit in any WindowTicks + 1 consecutive ticks (which cover
\* every interval of length window_seconds).
C6_AtMostLimitPerWindow ==
    \A k \in TestKeys :
        /\ granted[k] <= callLimit
        /\ SumSeq(recent[k]) <= 2 * callLimit

\* a burst of 2 * limit across a window boundary
C6_Witness == callLimit >= 2 /\ SumSeq(recent["k1"]) = 2 * callLimit

\* the counter of key k exists and has an expiry
Timed(k) == RedisKey(k) \in DOMAIN redis /\ redis[RedisKey(k)].ttl # NoTTL

\* C27: the window is fixed, not sliding: a counter gets its expiry only from
\* the call whose INCR returned 1, and gets window_seconds; once set, the
\* expiry is never extended or reset by later calls (rejected ones included),
\* it only counts down; so the counter is gone at most window_seconds after
\* the expiry was set, and the call that finds no counter gets count 1 and is
\* admitted.
C27_FixedWindow ==
    [][\A k \in TestKeys :
          LET rk == RedisKey(k) IN
            /\ (Timed(k) /\ rk \in DOMAIN redis') =>
                  /\ redis'[rk].ttl # NoTTL
                  /\ redis'[rk].ttl <= redis[rk].ttl
            /\ Timed(k) => redis[rk].ttl \in 1..WindowTicks
            /\ (~Timed(k) /\ rk \in DOMAIN redis' /\ redis'[rk].ttl # NoTTL) =>
                  /\ redis'[rk].ttl = WindowTicks
                  /\ \E c \in Callers :
                        /\ calls[c].pc = "expire" /\ calls[c].key = k
                        /\ calls[c].count = 1
                        /\ calls'[c] = Idle
            /\ (rk \notin DOMAIN redis /\ rk \in DOMAIN redis') =>
                  /\ redis'[rk].count = 1
                  /\ Allowed(redis'[rk].count, callLimit)]_vars

\* calls were rejected in a window whose expiry has meanwhile counted down
C27_Witness ==
    /\ Timed("k1") /\ redis[RedisKey("k1")].ttl < WindowTicks
    /\ issued["k1"] > callLimit
    /\ Returned /\ last.key = "k1" /\ ~last.result /\ last.count = issued["k1"]

(***************************************************************************)
(* Claims about identity resolution, checked under SpecIdentity            *)
(***************************************************************************)
Resolved(i) == probe[i].identity # ""

\* the direct client address lies in a configured trusted-proxy network
InTrustedNetwork(host) == \E network \in trusted_networks : host \in network

\* C9: the identity is the leftmost X-Forwarded-For entry when the header is
\* present and the direct client address lies in a trusted-proxy network, and
\* the direct client address otherwise; two requests from one untrusted
\* address get the same identity whatever their X-Forwarded-For, and with no
\* trusted proxies configured the header has no effect.
C9_ForwardedOnlyFromTrustedProxy ==
    /\ \A i \in Probes :
          Resolved(i) =>
            IF probe[i].forwarded # <<>> /\ InTrustedNetwork(probe[i].client_host)
            THEN probe[i].identity = probe[i].forwarded[1]
            ELSE probe[i].client_host # None => probe[i].identity = probe[i].client_host
    /\ \A i, j \in Probes :
          /\ Resolved(i) /\ Resolved(j)
          /\ probe[i].client_host = probe[j].client_host
          /\ ~InTrustedNetwork(probe[i].client_host)
          => probe[i].identity = probe[j].identity
    /\ trusted_networks = {} =>
          \A i \in Probes :
              Resolved(i) =>
                probe[i].identity \in {probe[i].client_host, "unknown"}

\* one untrusted address sends two different X-Forwarded-For headers while a
\* trusted proxy's header is honoured
C9_Witness ==
    /\ probe[1].client_host = ClientU /\ probe[1].forwarded = <<ClientV>>
    /\ probe[1].identity = ClientU
    /\ probe[2].client_host = ProxyP /\ probe[2].forwarded = <<ClientU, ProxyQ>>
    /\ probe[2].identity = ClientU

(***************************************************************************)
(* Claims about the request pipeline, checked under Spec                   *)
(***************************************************************************)
\* the requests of a state: those in flight and the one just answered
InFlight == {req[s] : s \in Slots} \ {Free}

Answered == resp.pc = "done"

Seen == InFlight \cup (IF Answered THEN {resp} ELSE {})

\* the request is past GlobalRateLimitMiddleware
PastGlobal(r) == r.pc \notin {"free", "global", "global_expire", "done"}

\* the request is past BodySizeLimitMiddleware, at the router or beyond
PastBody(r) == PastGlobal(r) /\ r.pc # "body"

\* C3: a request whose increment of the global or of the scope counter came
\* back above the limit is answered 429 and its handler never runs: no
\* request past the global guard has a global count above the limit, and no
\* request at or in its handler has a scope count above the limit.
C3_OverLimitNeverHandled ==
    /\ \A r \in InFlight :
          /\ PastGlobal(r) => ~r.gover
          /\ (r.pc = "endpoint" \/ r.handled) => (~r.gover /\ ~r.sover)
    /\ (Answered /\ (resp.gover \/ resp.sover)) => (resp.status = 429 /\ ~resp.handled)

\* a scope counter went above its limit while another request was in flight
C3_Witness ==
    /\ Answered /\ resp.sover /\ ~resp.gover /\ resp.status = 429
    /\ \E r \in InFlight : r.handled

\* C7: every request, whatever its route, method and later answer, passes
\* the global limiter first: it increments global:<client address> once,
\* before the body guard, any scope counter and any handler; above the
\* global limit it is answered 429 service_overloaded and nothing else of
\* the pipeline has run for it.
C7_GlobalLimiterFirst ==
    /\ \A r \in Seen :
          (r.pc \notin {"global"}) => r.gkey = "global:" \o r.client_host
    /\ \A r \in Seen :
          r.gkey = "" => (r.body = -1 /\ r.skey = "" /\ r.tg = 0 /\ ~r.handled)
    /\ CountOf(redis, RedisKey("global:" \o ClientU))
          <= arrived - Cardinality({s \in Slots : req[s].pc = "global"})
    /\ Answered =>
          /\ (resp.status = 429 /\ resp.detail = "service_overloaded") <=> resp.gover
          /\ resp.gover => (resp.body = -1 /\ resp.skey = "" /\ resp.tg = 0 /\ ~resp.handled)

\* a health probe is answered 429 service_overloaded
C7_Witness ==
    Answered /\ resp.route = "healthz" /\ resp.status = 429
        /\ resp.detail = "service_overloaded"

\* C8: a POST, PUT, PATCH or DELETE whose body is longer than the ceiling is
\* answered 413 payload_too_large by the body guard and reaches no route
\* guard, validator or handler; a body of exactly the ceiling passes; no
\* other method is ever answered 413.
C8_BodyLimit ==
    /\ \A r \in InFlight :
          (PastBody(r) /\ r.method \in {"POST", "PUT", "PATCH", "DELETE"})
              => r.body <= request_body_max_bytes
    /\ Answered /\ resp.body # -1 =>
          /\ (resp.method \in {"POST", "PUT", "PATCH", "DELETE"}
                  /\ resp.body > request_body_max_bytes)
             => /\ resp.status = 413 /\ resp.detail = "payload_too_large"
                /\ resp.skey = "" /\ resp.tg = 0 /\ resp.seconds = 0 /\ ~resp.handled
          /\ resp.status = 413
             => /\ resp.method \in {"POST", "PUT", "PATCH", "DELETE"}
                /\ resp.body > request_body_max_bytes

\* a PATCH one byte over the ceiling is answered 413 while a GET of that
\* size and a POST of exactly the ceiling are past the guard
C8_Witness ==
    /\ Answered /\ resp.method = "PATCH" /\ resp.status = 413
    /\ resp.body = request_body_max_bytes + 1
    /\ \E r \in InFlight :
          \/ PastBody(r) /\ r.method = "GET" /\ r.body = request_body_max_bytes + 1
          \/ PastBody(r) /\ r.method = "POST" /\ r.body = request_body_max_bytes

\* the scope keys a user-aware limiter can use for authenticated users
UserKeys(scope) ==
    {scope \o ":user:" \o ToString(id) : id \in 1..Cardinality(TelegramIds)}

\* C10: on the authenticated routes (admin content, usage) a request that
\* passed authentication is counted under <scope>:user:<user id>, never
\* under a network-address key.
C10_AuthenticatedRoutesCountPerUser ==
    \A r \in Seen :
        (r.route \in {"usage", "admin"} /\ r.skey # "")
            => r.skey \in UserKeys(ScopeOf(r.route))

\* the step sends a response
Answers == resp'.pc = "done"

\* the step is Pause: nothing is in flight before or after it
Pausing == req' = req /\ \A s \in Slots : req[s].pc = "free"

\* C21: a usage report whose seconds are outside 1..21600 (0 and 21601
\* included, 1 and 21600 not) is rejected and leaves every app_seconds_spent
\* as it was; a report that is accepted carries seconds s in 1..21600 and
\* its commit writes exactly (the counter it loaded) + s, which is c + s for
\* the stored counter c whenever no other report has committed since the
\* load; no other user's row changes.
C21_UsageAddsSeconds ==
    [][/\ \A v \in SecondsSent \cup {0, 1, 21600, 21601} :
             validate_seconds(v) <=> v \in 1..21600
       /\ (Answers /\ resp'.route = "usage") =>
             /\ resp'.seconds \notin 1..21600 =>
                   /\ resp'.status # 200
                   /\ users' = users
             /\ (resp'.skey # "" /\ ~resp'.sover /\ resp'.seconds \notin 1..21600)
                   => resp'.status = 422
             /\ resp'.status = 422 => (~resp'.handled /\ resp'.seconds \notin 1..21600)
             /\ resp'.status = 200 =>
                   /\ resp'.seconds \in 1..21600
                   /\ resp'.tg \in DOMAIN users
                   /\ users'[resp'.tg].app_seconds_spent = resp'.seen + resp'.seconds
                   /\ users[resp'.tg].app_seconds_spent = resp'.seen =>
                         users'[resp'.tg].app_seconds_spent
                             = users[resp'.tg].app_seconds_spent + resp'.seconds
                   /\ \A t \in DOMAIN users \ {resp'.tg} : users'[t] = users[t]
             /\ resp'.status # 200 => users' = users]_vars

\* a report of 3600 seconds on a counter of 3600 leaves 7200
C21_Witness ==
    /\ Answered /\ resp.route = "usage" /\ resp.status = 200
    /\ resp.seconds = 3600 /\ resp.seen = 3600
    /\ users[resp.tg].app_seconds_spent = 7200

\* C25: a login goes through the global guard, the auth limiter, the
\* verification of init_data, the user upsert and the token issuance in
\* that order, each only when the earlier ones passed: a login the auth
\* limiter rejects is never verified; a login that fails verification has
\* been counted by the auth limiter, touches no user row and gets no token;
\* tokens are issued only once the user row is stored, and their subject is
\* the row's id, not the Telegram id.
C25_LoginOrder ==
    [][/\ \A r \in {q \in Seen : q.route = "login"} :
             /\ r.skey # "" => (r.gkey # "" /\ ~r.gover /\ r.body # -1)
             /\ r.pc \in {"scope", "scope_expire"} => (~r.handled /\ r.tg = 0)
             /\ r.sover => (~r.handled /\ r.tg = 0 /\ r.sub = 0 /\ r.status = 429)
             /\ r.handled =>
                   /\ r.skey = "auth:" \o r.client_host /\ ~r.sover
                   /\ CountOf(redis, RedisKey(r.skey)) >= 1
             /\ r.tg # 0 => r.handled
             /\ r.pc \in {"ensure_read", "ensure_create"} => (r.tg # 0 /\ r.sub = 0)
             /\ r.sub # 0 =>
                   /\ r.status = 200 /\ r.tg # 0
                   /\ r.tg \in DOMAIN users
                   /\ r.sub = users[r.tg].id
                   /\ r.sub # r.tg
             /\ (r.pc = "done" /\ r.status = 200) => r.sub # 0
       /\ (Answers /\ resp'.route = "login" /\ resp'.status = 401) =>
             /\ resp'.handled /\ resp'.tg = 0 /\ resp'.sub = 0
             /\ CountOf(redis', RedisKey(resp'.skey)) >= 1
             /\ users' = users
       /\ (Answers /\ resp'.route = "login" /\ resp'.status \in {413, 429}) =>
             users' = users]_vars

\* a login is answered with tokens whose subject is the id of the stored
\* row, here the second row of the table
C25_Witness ==
    /\ Answered /\ resp.route = "login" /\ resp.status = 200
    /\ resp.tg \in DOMAIN users
    /\ resp.sub = users[resp.tg].id /\ resp.sub = 2

ChangedKeys ==
    {k \in DOMAIN redis \cup DOMAIN redis' :
        \/ k \notin DOMAIN redis
        \/ k \notin DOMAIN redis'
        \/ redis'[k] # redis[k]}

\* the key of the allow call a request is in, if it is in one
KeyInUse(r) ==
    IF r.pc \in {"global", "global_expire"}
    THEN {RedisKey("global:" \o default_identifier(r))}
    ELSE IF r.pc \in {"scope", "scope_expire"} THEN {RedisKey(r.skey)} ELSE {}

\* C30: a call of allow for key k changes only the counter (and expiry) of
\* k: every step of a request changes no counter but the one of the allow
\* call that request is in; and a request is rejected by a limiter only on
\* the count of its own key, so a quota exhausted in one scope or by one
\* identity rejects nothing in another.
C30_AllowTouchesOneKey ==
    [][/\ ~Pausing =>
             /\ Cardinality(ChangedKeys) <= 1
             /\ \A s \in Slots : req'[s] # req[s] => ChangedKeys \subseteq KeyInUse(req[s])
             /\ (\A s \in Slots : req'[s] = req[s]) => ChangedKeys = {}
       /\ Answers =>
             /\ (resp'.status = 429 /\ resp'.detail = "rate_limit_exceeded") =>
                   CountOf(redis', RedisKey(resp'.skey)) > ScopeLimit(ScopeOf(resp'.route))
             /\ (resp'.status = 429 /\ resp'.detail = "service_overloaded") =>
                   CountOf(redis', RedisKey(resp'.gkey)) > global_rate_limit_max_requests
             /\ resp'.status = 429 => (resp'.gover \/ resp'.sover)]_vars

\* the auth quota of the address is used up, a usage report from it is served
C30_Witness ==
    /\ Answered /\ resp.route = "usage" /\ resp.status = 200
    /\ CountOf(redis, RedisKey("auth:" \o ClientU)) > auth_rate_limit_per_minute
    /\ CountOf(redis, RedisKey(resp.skey)) <= usage_rate_limit_per_minute

(***************************************************************************)
(* Claims about init-data verification, checked under SpecTelegram         *)
(***************************************************************************)
Verified == verdict # NoVerdict

HasHash == ~blob.empty /\ "hash" \in DOMAIN blob.params

\* the fields of the init-data other than hash
SentFields == [k \in DOMAIN blob.params \ {"hash"} |-> blob.params[k]]

\* the hash is the signature Telegram puts on the fields sent
RightHash == HasHash /\ blob.params["hash"] = TelegramSignature(SentFields)

\* the user field is JSON for an object whose id is an integer
UserWithId ==
    /\ HasHash /\ "user" \in DOMAIN blob.params
    /\ blob.params["user"] # ""
    /\ json_loads(blob.params["user"]).ok
    /\ json_loads(blob.params["user"]).kind = "object"
    /\ "id" \in json_loads(blob.params["user"]).has
    /\ json_loads(blob.params["user"]).id.kind = "int"

\* auth_date is the decimal text of a positive integer
DatedInitData ==
    /\ HasHash /\ "auth_date" \in DOMAIN blob.params
    /\ IsIntText(blob.params["auth_date"])
    /\ ParseInt(blob.params["auth_date"]) > 0

Age == Now - ParseInt(blob.params["auth_date"])

C12_WrongHashIsInvalidSignature ==
    (Verified /\ HasHash /\ ~RightHash)
        => (verdict.status = 401 /\ verdict.detail = "invalid_signature")

ReasonCodes ==
    {"missing_telegram_payload", "invalid_payload", "invalid_signature",
     "missing_user_payload", "invalid_user_payload", "missing_user_id",
     "invalid_auth_date", "auth_expired"}

\* C14: every failed verification is an HTTP 401 whose detail is one of the
\* sanitized reason codes; none ends as an internal error.
C14_FailuresAreSanitized401 ==
    Verified => \/ verdict.status = 200
                \/ verdict.status = 401 /\ verdict.detail \in ReasonCodes

(***************************************************************************)
(* Claims about login, refresh and the user upsert, checked under SpecAuth *)
(***************************************************************************)
Replied == out.pc = "done"

\* the requests of a state: those in flight and the one just answered
AuthSeen == ({sess[a] : a \in Sessions} \ {NoRequest}) \cup (IF Replied THEN {out} ELSE {})

\* the limiter of the auth scope rejected the request
Limited(r) == r.status = 429 /\ r.detail = "rate_limit_exceeded"

\* C15: refresh answers 401 to every token whose type claim is not refresh,
\* a validly signed and unexpired access token included, and issues no
\* token pair for it.
C15_RefreshRejectsOtherTypes ==
    \A r \in AuthSeen :
        (r.route = "refresh" /\ r.token.type # "refresh")
            => /\ r.pc \in {"free", "done"}
               /\ r.pair = <<>>
               /\ r.pc = "done" => (r.status = 401 \/ Limited(r))

\* an access token that login issued, still unexpired, is answered 401
C15_Witness ==
    /\ Replied /\ out.route = "refresh" /\ out.token \in minted
    /\ out.token.type = "access" /\ out.token.signed /\ out.at < out.token.exp
    /\ out.status = 401 /\ out.detail = "invalid_refresh_token"

\* the rows whose id is the integer the token's sub names
SubjectRows(token) == {i \in 1..Len(db) : ToString(db[i].id) = token.sub}

\* C16: refresh issues a token pair only when the sub of the token presented
\* parses as an integer and is the id of an existing user; both tokens of
\* the pair carry that id as sub; otherwise the answer is 401 (or the
\* limiter's 429) and nothing is issued.
C16_RefreshResolvesSubject ==
    (Replied /\ out.route = "refresh")
        => /\ out.status \in {200, 401, 429}
           /\ out.status = 200 <=> out.pair # <<>>
           /\ out.status = 200
                => /\ IsIntText(out.token.sub)
                   /\ SubjectRows(out.token) # {}
                   /\ out.pair[1].sub = out.token.sub /\ out.pair[2].sub = out.token.sub
                   /\ out.pair[1].type = "access" /\ out.pair[2].type = "refresh"
           /\ (SubjectRows(out.token) = {} \/ ~IsIntText(out.token.sub))
                => out.status # 200

\* a refresh token that login issued is answered with a pair for its user
C16_Witness ==
    /\ Replied /\ out.route = "refresh" /\ out.status = 200
    /\ out.token \in minted /\ out.pair[2].sub = out.token.sub
    /\ \E i \in SubjectRows(out.token) : db[i].telegram_id = out.row.telegram_id

\* C17: a refresh token that was accepted once is accepted again whenever it
\* is presented before its exp (and the limiter admits the request), a token
\* presented at its exp or later is always rejected, and refresh never
\* writes to the users table.
C17_RefreshStatelessUntilExp ==
    (Replied /\ out.route = "refresh")
        => /\ (out.token \in accepted /\ out.at < out.token.exp /\ ~Limited(out))
                => (out.status = 200 /\ out.pair # <<>>)
           /\ out.at >= out.token.exp => out.status # 200
           /\ ~out.wrote

\* C18: a login (or profile request) for an existing Telegram id whose
\* username, names, locale, avatar and admin status all equal the stored
\* ones commits nothing to the users table.
C18_UnchangedLoginWritesNothing ==
    \A r \in AuthSeen :
        (/\ r.route \in {"login", "me"}
         /\ r.read # <<>>
         /\ r.read.username = r.profile.username
         /\ r.read.first_name = r.profile.first_name
         /\ r.read.last_name = r.profile.last_name
         /\ r.read.locale = r.profile.locale
         /\ r.read.avatar_url = r.profile.avatar_url
         /\ r.read.is_admin = (r.tg \in admin_telegram_ids))
            => (~r.wrote /\ r.pc # "ensure_update")

\* a login with the stored profile is answered 200 without a write
C18_Witness ==
    /\ Replied /\ out.route = "login" /\ out.status = 200
    /\ out.read # <<>> /\ out.read.username = out.profile.username
    /\ ~out.wrote /\ db[out.read.id] = out.read

\* C19: of two concurrent logins for a Telegram id that is not yet known,
\* the one that loses the uniqueness conflict is retried as an update: no
\* login ends in a fatal error.
C19_ConcurrentFirstLoginsSucceed ==
    (Replied /\ out.route = "login") => out.status # 500

\* C20: at most one user exists per telegram_id, and no step removes a user
\* or changes a user's id or telegram_id.
C20_OneUserPerTelegramId ==
    [][/\ \A i, j \in 1..Len(db') : db'[i].telegram_id = db'[j].telegram_id => i = j
       /\ Len(db') >= Len(db)
       /\ \A i \in 1..Len(db) :
             db'[i].id = db[i].id /\ db'[i].telegram_id = db[i].telegram_id]_vars

\* a request that had read no user for its Telegram id was refused the
\* creation of a second row for it
C20_Witness ==
    /\ Replied /\ out.status = 500 /\ out.read = <<>>
    /\ \E i \in 1..Len(db) : db[i].telegram_id = out.tg

\* why refresh fails for a token at a time, by the first check that fails
RefreshFailure(token, time) ==
    IF ~token.signed \/ token.exp < time THEN "undecodable or expired token"
    ELSE IF token.type # "refresh" THEN "wrong token type"
    ELSE IF ~IsIntText(token.sub) THEN "unparsable subject"
    ELSE "unknown user"

\* C23: every failure is answered with a reason distinct per cause: the
\* detail of a refresh answered 401 is not the detail refresh gives a token
\* that fails for another cause (undecodable or expired token, wrong token
\* type, unparsable subject, unknown user).
C23_ReasonPerCause ==
    (Replied /\ out.route = "refresh" /\ out.status = 401) =>
        \A token \in Presentable :
            (refresh_rejection(token, clock) # ""
                 /\ RefreshFailure(token, clock) # RefreshFailure(out.token, out.at))
                => refresh_rejection(token, clock) # out.detail

(***************************************************************************)
(* Claims about users and their usage counter, checked under SpecUsers     *)
(***************************************************************************)
\* the step sends a response
Replies == out'.pc = "done"

\* the init-data passes full verification: it carries the signature Telegram
\* puts on its other fields, a user with an id, and an auth_date that is at
\* most ALLOWED_TIME_SKEW_SECONDS old
FullyVerified(header) ==
    /\ ~header.empty
    /\ "hash" \in DOMAIN header.params
    /\ header.params["hash"]
          = TelegramSignature([k \in DOMAIN header.params \ {"hash"} |-> header.params[k]])
    /\ "user" \in DOMAIN header.params
    /\ "auth_date" \in DOMAIN header.params
    /\ IsIntText(header.params["auth_date"])
    /\ ParseInt(header.params["auth_date"]) > 0
    /\ Now - ParseInt(header.params["auth_date"]) <= 3600

\* C22: app_seconds_spent of a user never decreases, whatever the
\* interleaving of login, /users/me and usage requests, and only a
\* successful usage report of that user changes it.
C22_UsageCounterMonotone ==
    [][\A i \in 1..Len(db) :
          /\ db'[i].app_seconds_spent >= db[i].app_seconds_spent
          /\ db'[i].app_seconds_spent # db[i].app_seconds_spent =>
                /\ Replies /\ out'.route = "usage" /\ out'.status = 200
                /\ out'.row.id = i]_vars

\* C24: /users/me and usage are served only to a request whose own
\* X-Telegram-Init-Data passes full verification; a request without the
\* header, or with one that is invalid or stale, is answered 401 and changes
\* no user, with or without an access token in its Authorization header.
C24_ProfileRoutesNeedInitData ==
    [][/\ \A a \in Sessions :
             (sess'[a].route \in {"me", "usage"} /\ sess'[a].pc # "free")
                 => FullyVerified(sess'[a].header)
       /\ (Replies /\ out'.route \in {"me", "usage"}) =>
             /\ out'.status = 200 => FullyVerified(out'.header)
             /\ ~FullyVerified(out'.header) => (out'.status = 401 /\ db' = db)]_vars

\* C26: when a login for Telegram id T succeeds, the stored user of T has
\* the username, first_name, last_name, locale and avatar_url of the
\* login's verified payload and is_admin = (T in the allowlist); a user the
\* login created has app_seconds_spent 0, an existing user keeps the
\* app_seconds_spent it had, and no other user's row changes.
C26_LoginStoresPayload ==
    [][(Replies /\ out'.route = "login" /\ out'.status = 200) =>
          LET user == get_by_telegram_id(db', out'.tg) IN
            /\ user # <<>>
            /\ user.username = out'.profile.username
            /\ user.first_name = out'.profile.first_name
            /\ user.last_name = out'.profile.last_name
            /\ user.locale = out'.profile.locale
            /\ user.avatar_url = out'.profile.avatar_url
            /\ user.is_admin = (out'.tg \in admin_telegram_ids)
            /\ out'.read = <<>> => user.app_seconds_spent = 0
            /\ out'.read # <<>> => user.app_seconds_spent = db[user.id].app_seconds_spent
            /\ \A i \in 1..Len(db) : db[i].telegram_id # out'.tg => db'[i] = db[i]]_vars

\* C28: no usage time is lost: every usage report that is answered 200 has
\* added its seconds to the counter as stored when it commits, so two
\* concurrent reports of s1 and s2 seconds leave initial + s1 + s2 in every
\* interleaving of their reads and commits.
C28_NoUsageTimeLost ==
    [][(Replies /\ out'.route = "usage" /\ out'.status = 200) =>
          db'[out'.row.id].app_seconds_spent
              = db[out'.row.id].app_seconds_spent + out'.seconds]_vars

====
